---- MODULE Spec2Model ----
(***************************************************************************)
(* Model of the worker pool in templates/ts/server/src/runtime.rs:         *)
(* RuntimeManager::new spawns num_threads worker threads that share the    *)
(* receive side of a bounded crossbeam channel; RuntimeManager::execute    *)
(* builds a WorkerCommand with a fresh tokio oneshot channel, sends it on  *)
(* the bounded channel and awaits the oneshot receiver.                    *)
(*                                                                         *)
(* Not modelled as state: method, path, headers, params and query.  They   *)
(* are moved into the WorkerCommand and borrowed by the action call        *)
(* exactly as action_name and body are, so action_name and body stand for  *)
(* the whole payload.                                                      *)
(***************************************************************************)
EXTENDS Integers, Sequences, FiniteSets, TLC

\* ------------------------------------------------------------------ bounds
MaxThreads == 2
MaxCallers == 3

\* runtime.rs:54 multiplies num_threads by 2000.  The model keeps the
\* product but scales the factor so that a full queue is reachable.
QueueMultiplier == 2

Callers == 1..MaxCallers
Actions == {"echo", "sum"}
\* The two action names are interchangeable, so the first call is an "echo".
ActionsOf(c) == IF c = 1 THEN {"echo"} ELSE Actions
Bodies  == {"hello"}

NoCmd == [action_name |-> "-", body |-> "-", response_tx |-> 0]
NoArgs == [action |-> "-", body |-> "-"]
NoRet == [ok |-> FALSE, val |-> <<"pending">>]

DispatchErr   == <<"sending on a disconnected channel">>
CompletionErr == <<"Worker channel closed">>

VARIABLES
    num_threads,   \* argument of RuntimeManager::new
    sender,        \* TRUE while the Manager (its Sender<WorkerCommand>) is alive
    queue,         \* messages waiting in the bounded channel, head first
    wstate,        \* per worker thread: position in the spawned closure
    wcmd,          \* per worker thread: the `cmd` bound by `while let Ok(cmd)`
    runtime,       \* per worker thread: its local `runtime` (engine id, 0 = none yet)
    engine_users,  \* per engine: threads currently inside execute_action_optimized with it
    engine_touched,\* per engine: every thread that created or used it
    cpc,           \* per caller: position in execute()
    creq,          \* per caller: the arguments of its execute() call
    oneshot,       \* per caller: the oneshot channel created at runtime.rs:110
    ret,           \* per caller: value returned by execute()
    accepted,      \* history: response_tx ids in the order send() accepted them
    deqLog,        \* history: response_tx ids in the order recv() returned them
    execCount,     \* history: completed execute_action_optimized calls per descriptor
    sendCount,     \* history: response_tx.send calls per oneshot channel
    readCount,     \* history: resolutions of rx.await per oneshot channel
    chanCount,     \* history: oneshot::channel() calls per caller
    everBlocked,   \* history: callers whose send() found the queue full
    staleDeq,      \* history: workers whose current command was dequeued after its caller had gone
    crashLog       \* history: <<thread, response_tx>> of panics inside the execution step

vars == <<num_threads, sender, queue, wstate, wcmd, runtime, engine_users,
          engine_touched, cpc, creq, oneshot, ret, accepted, deqLog, execCount,
          sendCount, readCount, chanCount, everBlocked, staleDeq,
          crashLog>>

Workers == 1..num_threads

\* ------------------------------------------------- bounded channel (crossbeam)
\* bounded::<WorkerCommand>(num_threads * 2000)
Capacity == num_threads * QueueMultiplier

\* Faulty variant of ReceiversAlive: a worker clones `rx` only after its engine
\* is initialized.
ReceiversAliveAfterInit ==
    {w \in Workers : wstate[w] \notin {"Initializing", "Terminated"}}

\* Faulty variant of ReceiversAlive: new() keeps `rx` (0) alive in the Manager.
ReceiversAliveKeepsRx == {w \in Workers : wstate[w] # "Terminated"} \cup {0}

\* Receiver clones still alive: `rx` itself is dropped when new() returns, each
\* rx_clone lives exactly as long as its thread's closure.
ReceiversAlive == {w \in Workers : wstate[w] # "Terminated"}

\* Faulty variant of SendOutcome: room is tested with <= instead of <.
SendOutcomeOffByOne(q, disconnected) ==
    IF disconnected THEN "Err"
    ELSE IF Len(q) <= Capacity THEN "Ok"
    ELSE "Full"

\* Faulty variant of SendOutcome: a full queue fails the call (try_send).
SendOutcomeFailsWhenFull(q, disconnected) ==
    IF disconnected THEN "Err"
    ELSE IF Len(q) < Capacity THEN "Ok"
    ELSE "Err"

\* Faulty variant of SendOutcome: disconnection is not looked at.
SendOutcomeIgnoresDisconnect(q, disconnected) ==
    IF Len(q) < Capacity THEN "Ok" ELSE "Full"

\* Sender::send on a bounded channel: Err once every receiver is gone,
\* otherwise accept when there is room, otherwise block.
SendOutcome(q, disconnected) ==
    IF disconnected THEN "Err"
    ELSE IF Len(q) < Capacity THEN "Ok"
    ELSE "Full"

\* Faulty variants of Recv: the message is handed out but stays queued; the
\* newest message is handed out instead of the oldest.
RecvKeepsMessage(q) == [msg |-> Head(q), rest |-> q]
RecvNewest(q) == [msg |-> q[Len(q)], rest |-> SubSeq(q, 1, Len(q) - 1)]

\* Faulty variant of Recv: a message whose reply receiver is already dropped
\* is passed over while a message of a waiting caller is queued behind it.
RecvSkipsGone(q) ==
    LET live == SelectSeq(q, LAMBDA m : oneshot[m.response_tx].rx # "dropped")
    IN  IF live = <<>>
        THEN [msg |-> Head(q), rest |-> Tail(q)]
        ELSE [msg |-> Head(live), rest |-> Tail(live)]

\* Receiver::recv on a non-empty queue: the oldest message, and what stays.
Recv(q) == [msg |-> Head(q), rest |-> Tail(q)]

\* Faulty variant of RecvDisconnected: Err as soon as the senders are gone.
RecvDisconnectedEarly(q, senderAlive) == ~senderAlive

\* Receiver::recv returns Err only on an empty queue whose senders are all gone.
RecvDisconnected(q, senderAlive) == q = <<>> /\ ~senderAlive

\* ---------------------------------------------------------- oneshot (tokio)
NoVal == <<"none">>
NoChan == [tx |-> "none", rx |-> "none", value |-> NoVal]

\* oneshot::channel()
OneshotChannel == [tx |-> "alive", rx |-> "alive", value |-> NoVal]

\* Faulty variant of OneshotSend: the sender is consumed, the value is lost.
OneshotSendLosesValue(ch, v) ==
    IF ch.tx = "alive" /\ ch.rx = "alive"
    THEN [ch EXCEPT !.tx = "used"]
    ELSE [ch EXCEPT !.tx = "refused"]

\* oneshot::Sender::send consumes the sender; the value is stored only
\* while the receiver is alive, otherwise it is handed back as Err(value).
OneshotSendOk(ch) == ch.tx = "alive" /\ ch.rx = "alive"

OneshotSend(ch, v) ==
    IF OneshotSendOk(ch)
    THEN [ch EXCEPT !.tx = "used", !.value = v]
    ELSE [ch EXCEPT !.tx = "refused"]

\* Dropping an unused oneshot::Sender closes the channel without a value.
OneshotDropTx(ch) ==
    IF ch.tx = "alive" THEN [ch EXCEPT !.tx = "dropped"] ELSE ch

\* Dropping the oneshot::Receiver (with any value it still holds).
OneshotDropRx(ch) == [ch EXCEPT !.rx = "dropped", !.value = NoVal]

\* Dropping WorkerCommands drops the response_tx of each.
DropCmds(os, q) ==
    LET ids == {q[i].response_tx : i \in 1..Len(q)}
    IN  [c \in Callers |-> IF c \in ids THEN OneshotDropTx(os[c]) ELSE os[c]]

\* -------------------------------------------------- opaque collaborators
\* extensions::init_runtime_worker: a fresh engine, named after the thread
\* that constructed it.
InitRuntimeWorker(w) == w

\* extensions::execute_action_optimized: deterministic in the request.
ExecuteAction(action_name, body) == <<"json", action_name, body>>

\* Faulty variant of EngineUsedBy: one engine shared by every thread.
EngineShared(w) == 1

\* The `&mut runtime` a worker passes to execute_action_optimized.
EngineUsedBy(w) == runtime[w]

\* Faulty variant of AfterReply: the send outcome is unwrapped, so a refused
\* send panics the thread.
AfterReplyUnwrap(sendOk) == IF sendOk THEN "Idle" ELSE "Terminated"

\* `let _ = cmd.response_tx.send(..)`: the outcome is ignored and the loop
\* goes back to recv().
AfterReply(sendOk) == "Idle"

\* Faulty variant of HoldsReceiver: rx is moved into the first thread only.
HoldsReceiverFirstOnly(w) == w = 1

\* `let rx_clone = rx.clone()` (runtime.rs:59): every thread gets a receiver.
HoldsReceiver(w) == w \in Workers

\* ------------------------------------------------------------------ Init
Init ==
    /\ num_threads \in 0..MaxThreads
    /\ sender = TRUE
    /\ queue = <<>>
    /\ wstate = [w \in 1..num_threads |-> "Initializing"]
    /\ wcmd = [w \in 1..num_threads |-> NoCmd]
    /\ runtime = [w \in 1..num_threads |-> 0]
    /\ engine_users = [e \in 1..num_threads |-> {}]
    /\ engine_touched = [e \in 1..num_threads |-> {}]
    /\ cpc = [c \in Callers |-> "Start"]
    /\ creq = [c \in Callers |-> NoArgs]
    /\ oneshot = [c \in Callers |-> NoChan]
    /\ ret = [c \in Callers |-> NoRet]
    /\ accepted = <<>>
    /\ deqLog = <<>>
    /\ execCount = [c \in Callers |-> 0]
    /\ sendCount = [c \in Callers |-> 0]
    /\ readCount = [c \in Callers |-> 0]
    /\ chanCount = [c \in Callers |-> 0]
    /\ everBlocked = {}
    /\ staleDeq = {}
    /\ crashLog = {}

callerHist == <<accepted, everBlocked, chanCount, readCount>>
workerHist == <<deqLog, execCount, sendCount, crashLog, staleDeq>>
engineVars == <<runtime, engine_users, engine_touched>>
callerVars == <<cpc, creq, ret>>

\* ------------------------------------------------------------ worker thread
\* A receiver clone is dropped by thread w.  When it was the last one the
\* channel is disconnected; the messages still queued are either destroyed at
\* once or kept until the channel itself is freed, depending on the
\* crossbeam-channel release the build links.  With the sender gone as well
\* the channel is freed and they are destroyed.
ReceiverGone(w, os) ==
    IF ReceiversAlive \subseteq {w} /\ queue # <<>>
    THEN \E discard \in (IF sender THEN BOOLEAN ELSE {TRUE}) :
            IF discard
            THEN queue' = <<>> /\ oneshot' = DropCmds(os, queue)
            ELSE queue' = queue /\ oneshot' = os
    ELSE queue' = queue /\ oneshot' = os

\* runtime.rs:67 returns.
WorkerInit(w) ==
    /\ wstate[w] = "Initializing"
    /\ wstate' = [wstate EXCEPT ![w] = "Idle"]
    /\ runtime' = [runtime EXCEPT ![w] = InitRuntimeWorker(w)]
    /\ engine_touched' = [engine_touched EXCEPT ![InitRuntimeWorker(w)] = @ \cup {w}]
    /\ UNCHANGED <<num_threads, sender, queue, wcmd, engine_users, callerVars,
                   oneshot, callerHist, workerHist>>

\* runtime.rs:67 panics: the thread unwinds and drops rx_clone.
WorkerInitPanic(w) ==
    /\ wstate[w] = "Initializing"
    /\ wstate' = [wstate EXCEPT ![w] = "Terminated"]
    /\ ReceiverGone(w, oneshot)
    /\ UNCHANGED <<num_threads, sender, wcmd, engineVars, callerVars,
                   callerHist, workerHist>>

\* runtime.rs:70, recv() returns Ok(cmd); the call at line 72 begins.
WorkerRecv(w) ==
    /\ wstate[w] = "Idle"
    /\ HoldsReceiver(w)
    /\ queue # <<>>
    /\ LET cmd == Recv(queue).msg
           e == EngineUsedBy(w)
       IN  /\ wcmd' = [wcmd EXCEPT ![w] = cmd]
           /\ queue' = Recv(queue).rest
           /\ deqLog' = Append(deqLog, cmd.response_tx)
           /\ staleDeq' = IF oneshot[cmd.response_tx].rx = "dropped"
                          THEN staleDeq \cup {w}
                          ELSE staleDeq
           /\ engine_users' = [engine_users EXCEPT ![e] = @ \cup {w}]
           /\ engine_touched' = [engine_touched EXCEPT ![e] = @ \cup {w}]
    /\ wstate' = [wstate EXCEPT ![w] = "Executing"]
    /\ UNCHANGED <<num_threads, sender, runtime, callerVars, oneshot,
                   callerHist, execCount, sendCount, crashLog>>

\* runtime.rs:70, recv() returns Err: queue empty and every sender dropped.
WorkerRecvClosed(w) ==
    /\ wstate[w] = "Idle"
    /\ RecvDisconnected(queue, sender)
    /\ wstate' = [wstate EXCEPT ![w] = "Terminated"]
    /\ UNCHANGED <<num_threads, sender, queue, wcmd, engineVars, callerVars,
                   oneshot, callerHist, workerHist>>

\* runtime.rs:72-85: the action returns and its result is sent on response_tx.
WorkerReply(w) ==
    /\ wstate[w] = "Executing"
    /\ LET cmd == wcmd[w]
           c == cmd.response_tx
           result == ExecuteAction(cmd.action_name, cmd.body)
       IN  /\ oneshot' = [oneshot EXCEPT ![c] = OneshotSend(@, result)]
           /\ wstate' = [wstate EXCEPT ![w] = AfterReply(OneshotSendOk(oneshot[c]))]
           /\ execCount' = [execCount EXCEPT ![c] = @ + 1]
           /\ sendCount' = [sendCount EXCEPT ![c] = @ + 1]
    /\ wcmd' = [wcmd EXCEPT ![w] = NoCmd]
    /\ engine_users' = [engine_users EXCEPT ![EngineUsedBy(w)] = @ \ {w}]
    /\ staleDeq' = staleDeq \ {w}
    /\ UNCHANGED <<num_threads, sender, queue, runtime, engine_touched,
                   callerVars, callerHist, deqLog, crashLog>>

\* Faulty variant of PanicDrop: the sender is leaked instead of dropped.
PanicLeak(ch) == ch

\* The unwinding of a panic at runtime.rs:72 drops what is left of `cmd`,
\* its response_tx included.
PanicDrop(ch) == OneshotDropTx(ch)

\* runtime.rs:72 panics: the thread unwinds, dropping cmd, runtime, rx_clone.
WorkerPanic(w) ==
    /\ wstate[w] = "Executing"
    /\ LET c == wcmd[w].response_tx
       IN  /\ ReceiverGone(w, [oneshot EXCEPT ![c] = PanicDrop(@)])
           /\ crashLog' = crashLog \cup {<<w, c>>}
    /\ wstate' = [wstate EXCEPT ![w] = "Terminated"]
    /\ wcmd' = [wcmd EXCEPT ![w] = NoCmd]
    /\ engine_users' = [engine_users EXCEPT ![EngineUsedBy(w)] = @ \ {w}]
    /\ staleDeq' = staleDeq \ {w}
    /\ UNCHANGED <<num_threads, sender, runtime, engine_touched, callerVars,
                   callerHist, deqLog, execCount, sendCount>>

\* ------------------------------------------------------------------ execute()
\* Faulty variant of BuildCmd: every command carries the first caller's sender.
BuildCmdSharedTx(c, action, body) ==
    [action_name |-> action, body |-> body, response_tx |-> 1]

\* The WorkerCommand built at runtime.rs:112-121 for caller c.
BuildCmd(c, action, body) ==
    [action_name |-> action, body |-> body, response_tx |-> c]

\* runtime.rs:124 on Err: `?` returns e.to_string(); the SendError and the
\* command inside it are dropped, then rx goes out of scope.
DispatchFailure(c, os) ==
    /\ cpc' = [cpc EXCEPT ![c] = "Returned"]
    /\ ret' = [ret EXCEPT ![c] = [ok |-> FALSE, val |-> DispatchErr]]
    /\ oneshot' = [os EXCEPT ![c] = OneshotDropRx(OneshotDropTx(@))]
    /\ UNCHANGED <<queue, accepted, everBlocked>>

\* Faulty variant of Accept: the command enters the queue twice.
AcceptTwice(c, cmd, os) ==
    /\ queue' = Append(Append(queue, cmd), cmd)
    /\ accepted' = Append(accepted, c)
    /\ cpc' = [cpc EXCEPT ![c] = "Awaiting"]
    /\ oneshot' = os
    /\ UNCHANGED <<ret, everBlocked>>

\* runtime.rs:124 on Ok: the command is in the queue; execute() goes on to rx.await.
Accept(c, cmd, os) ==
    /\ queue' = Append(queue, cmd)
    /\ accepted' = Append(accepted, c)
    /\ cpc' = [cpc EXCEPT ![c] = "Awaiting"]
    /\ oneshot' = os
    /\ UNCHANGED <<ret, everBlocked>>

\* runtime.rs:124 while the queue is full: send() blocks inside the call.
Block(c, os) ==
    /\ cpc' = [cpc EXCEPT ![c] = "Blocked"]
    /\ everBlocked' = everBlocked \cup {c}
    /\ oneshot' = os
    /\ UNCHANGED <<queue, accepted, ret>>

SendStep(c, cmd, os) ==
    LET outcome == SendOutcome(queue, ReceiversAlive = {})
    IN  CASE outcome = "Err"  -> DispatchFailure(c, os)
          [] outcome = "Ok"   -> Accept(c, cmd, os)
          [] outcome = "Full" -> Block(c, os)

\* runtime.rs:110-124: first poll of execute(action, .., body, ..).  Callers
\* are numbered in the order in which their execute() futures are first polled.
Submit(c, action, body) ==
    /\ cpc[c] = "Start"
    /\ \A d \in Callers : d < c => cpc[d] # "Start"
    /\ sender
    /\ creq' = [creq EXCEPT ![c] = [action |-> action, body |-> body]]
    /\ chanCount' = [chanCount EXCEPT ![c] = @ + 1]
    /\ SendStep(c, BuildCmd(c, action, body), [oneshot EXCEPT ![c] = OneshotChannel])
    /\ UNCHANGED <<num_threads, sender, wstate, wcmd, engineVars, readCount,
                   workerHist>>

\* runtime.rs:124: a blocked send() is woken by a freed slot or by disconnection.
SendUnblock(c) ==
    /\ cpc[c] = "Blocked"
    /\ SendOutcome(queue, ReceiversAlive = {}) # "Full"
    /\ SendStep(c, BuildCmd(c, creq[c].action, creq[c].body), oneshot)
    /\ UNCHANGED <<num_threads, sender, wstate, wcmd, engineVars, creq,
                   chanCount, readCount, workerHist>>

\* runtime.rs:127-130: what rx.await resolves to, if it resolves.
AwaitOutcome(ch) ==
    IF ch.value # NoVal THEN [ok |-> TRUE, val |-> ch.value]
    ELSE IF ch.tx = "dropped" THEN [ok |-> FALSE, val |-> CompletionErr]
    ELSE NoRet

AwaitReply(c) ==
    /\ cpc[c] = "Awaiting"
    /\ AwaitOutcome(oneshot[c]) # NoRet
    /\ ret' = [ret EXCEPT ![c] = AwaitOutcome(oneshot[c])]
    /\ cpc' = [cpc EXCEPT ![c] = "Returned"]
    /\ oneshot' = [oneshot EXCEPT ![c] = [@ EXCEPT !.rx = "consumed", !.value = NoVal]]
    /\ readCount' = [readCount EXCEPT ![c] = @ + 1]
    /\ UNCHANGED <<num_threads, sender, queue, wstate, wcmd, engineVars, creq,
                   accepted, everBlocked, chanCount, workerHist>>

\* The execute() future is dropped at its only await point (runtime.rs:127).
Abandon(c) ==
    /\ cpc[c] = "Awaiting"
    /\ cpc' = [cpc EXCEPT ![c] = "Abandoned"]
    /\ oneshot' = [oneshot EXCEPT ![c] = OneshotDropRx(@)]
    /\ UNCHANGED <<num_threads, sender, queue, wstate, wcmd, engineVars, creq,
                   ret, callerHist, workerHist>>

\* The RuntimeManager is dropped (no execute() future borrows it): its Sender
\* goes, and with no receiver left the channel and its messages are freed.
DropManager ==
    /\ sender
    /\ \A c \in Callers : cpc[c] \notin {"Blocked", "Awaiting"}
    /\ sender' = FALSE
    /\ IF ReceiversAlive = {}
       THEN queue' = <<>> /\ oneshot' = DropCmds(oneshot, queue)
       ELSE UNCHANGED <<queue, oneshot>>
    /\ UNCHANGED <<num_threads, wstate, wcmd, engineVars, callerVars,
                   callerHist, workerHist>>

Next ==
    \/ \E w \in Workers : WorkerInit(w)
    \/ \E w \in Workers : WorkerInitPanic(w)
    \/ \E w \in Workers : WorkerRecv(w)
    \/ \E w \in Workers : WorkerRecvClosed(w)
    \/ \E w \in Workers : WorkerReply(w)
    \/ \E w \in Workers : WorkerPanic(w)
    \/ \E c \in Callers : \E a \in ActionsOf(c), b \in Bodies : Submit(c, a, b)
    \/ \E c \in Callers : SendUnblock(c)
    \/ \E c \in Callers : AwaitReply(c)
    \/ \E c \in Callers : Abandon(c)
    \/ DropManager

Spec == Init /\ [][Next]_vars

\* ================================================================ properties
Range(seq) == {seq[i] : i \in 1..Len(seq)}
NoDup(seq) == \A i, j \in 1..Len(seq) : seq[i] = seq[j] => i = j
IsPrefix(p, q) == Len(p) <= Len(q) /\ SubSeq(q, 1, Len(p)) = p
QueueIds == [i \in 1..Len(queue) |-> queue[i].response_tx]
OwnCmd(c) == BuildCmd(c, creq[c].action, creq[c].body)

\* C1: a descriptor accepted into the queue is received by at most one
\* worker and executed at most once; while it exists it exists in exactly
\* one place (one queue slot or one worker), unchanged from what execute()
\* built.
C1_ExactlyOneWorker ==
    LET dequeued == Range(deqLog)
    IN  /\ NoDup(deqLog)
        /\ NoDup(accepted)
        /\ dequeued \subseteq Range(accepted)
        /\ \A c \in Callers : execCount[c] <= (IF c \in dequeued THEN 1 ELSE 0)
        /\ \A i \in 1..Len(queue) :
              /\ queue[i].response_tx \in Callers \ dequeued
              /\ queue[i] = OwnCmd(queue[i].response_tx)
              /\ \A j \in 1..Len(queue) : queue[j] = queue[i] => j = i
        /\ \A w \in Workers :
              wstate[w] = "Executing"
                  => /\ wcmd[w].response_tx \in dequeued
                     /\ wcmd[w] = OwnCmd(wcmd[w].response_tx)
                     /\ \A v \in Workers : wcmd[v] = wcmd[w] => v = w
        /\ \A w \in Workers : wstate[w] # "Executing" => wcmd[w] = NoCmd

\* Two workers hold different descriptors at once and a third descriptor has
\* already been executed.
C1_Witness ==
    /\ num_threads = 2
    /\ wstate[1] = "Executing" /\ wstate[2] = "Executing"
    /\ \E c \in Callers : execCount[c] = 1

\* C2: a successful return of execute() carries the result the action
\* function computes for that caller's own arguments.
C2_ResultIsOwn ==
    \A c \in Callers :
        (cpc[c] = "Returned" /\ ret[c].ok)
            => ret[c].val = ExecuteAction(creq[c].action, creq[c].body)

\* Two callers with different actions both got their result, and the later
\* submission completed while the earlier one was still waiting.
C2_Witness ==
    \E c, d \in Callers :
        /\ c < d
        /\ creq[c].action # creq[d].action
        /\ cpc[d] = "Returned" /\ ret[d].ok
        /\ cpc[c] = "Awaiting" /\ oneshot[c].value # NoVal

\* C3: each execute() call creates exactly one oneshot channel; its sender
\* is used at most once, only by a worker that dequeued the command, and its
\* receiver resolves at most once.
C3_HandleOnce ==
    \A c \in Callers :
        /\ chanCount[c] = (IF cpc[c] = "Start" THEN 0 ELSE 1)
        /\ sendCount[c] <= 1
        /\ sendCount[c] >= 1 => c \in Range(deqLog)
        /\ readCount[c] <= 1
        /\ oneshot[c].value # NoVal => sendCount[c] = 1
        /\ (cpc[c] = "Returned") = (readCount[c] = 1 \/ ret[c].val = DispatchErr)

\* One handle written and read, another written after its reader went away.
C3_Witness ==
    \E c, d \in Callers :
        /\ sendCount[c] = 1 /\ readCount[c] = 1 /\ ret[c].ok
        /\ sendCount[d] = 1 /\ readCount[d] = 0 /\ oneshot[d].tx = "refused"

\* C4: descriptors leave the queue in the order they were accepted: the
\* dequeue history is a prefix of the acceptance history, and the queue holds
\* the next accepted descriptors in acceptance order.
C4_Fifo ==
    /\ IsPrefix(deqLog, accepted)
    /\ IsPrefix(QueueIds, SubSeq(accepted, Len(deqLog) + 1, Len(accepted)))

\* One worker; a caller found the queue full, so two descriptors were waiting
\* together before any dequeue, and both have since been dequeued.
C4_Witness ==
    /\ num_threads = 1
    /\ everBlocked # {}
    /\ Len(deqLog) >= 2

\* C5: the queue never holds more than num_threads * multiplier descriptors.
C5_QueueBounded == Len(queue) <= num_threads * QueueMultiplier

\* The queue is full and a further submission is suspended.
C5_Witness ==
    /\ num_threads >= 1
    /\ Len(queue) = num_threads * QueueMultiplier
    /\ \E c \in Callers : cpc[c] = "Blocked"

Full == Len(queue) >= Capacity
CompletionFailure == [ok |-> FALSE, val |-> CompletionErr]
DispatchFailed == [ok |-> FALSE, val |-> DispatchErr]
Pos(seq, x) == CHOOSE i \in 1..Len(seq) : seq[i] = x

C6_Suspended ==
    \A c \in Callers :
        (cpc[c] \in {"Start", "Blocked"} /\ Full /\ ReceiversAlive # {})
            => /\ cpc'[c] \in {cpc[c], "Blocked"}
               /\ ret'[c] = ret[c]
               /\ cpc[c] = "Blocked" => (creq'[c] = creq[c] /\ oneshot'[c] = oneshot[c])

C6_AcceptedAfterwards ==
    \A c \in Callers :
        (cpc[c] = "Blocked" /\ cpc'[c] # "Blocked" /\ ReceiversAlive # {})
            => /\ ~Full
               /\ cpc'[c] = "Awaiting"
               /\ queue' = Append(queue, OwnCmd(c))

C6_Wakeable ==
    \A c \in Callers :
        (cpc[c] = "Blocked" /\ ~Full /\ ReceiversAlive # {}) => ENABLED SendUnblock(c)

\* C6: while the queue is full and a worker is alive, a submission stays at
\* the enqueue step (no return value, its command and reply handle intact);
\* once there is room it can be woken, and when it leaves the enqueue step with
\* a worker alive it has been appended to the queue with its own command.
C6_Backpressure ==
    /\ []C6_Wakeable
    /\ [][C6_Suspended /\ C6_AcceptedAfterwards]_vars

\* A submission that found the queue full has since been accepted and waits
\* in the queue.
C6_Witness ==
    \E c \in everBlocked : cpc[c] = "Awaiting" /\ c \in Range(QueueIds)

\* C7: an engine is only ever touched by the thread that constructed it (engine
\* e is the one thread e constructed), at most one action runs on it at a
\* time, and an executing worker runs on its own engine.
C7_Isolation ==
    /\ \A e \in Workers :
          /\ Cardinality(engine_users[e]) <= 1
          /\ engine_touched[e] \subseteq {e}
    /\ \A w \in Workers :
          wstate[w] = "Executing"
              => (runtime[w] = InitRuntimeWorker(w) /\ w \in engine_users[runtime[w]])

\* Two actions execute concurrently, each on its own worker's engine.
C7_Witness ==
    /\ num_threads = 2
    /\ wstate[1] = "Executing" /\ wstate[2] = "Executing"
    /\ engine_users[1] = {1} /\ engine_users[2] = {2}

C8_AbandonLeavesWorker ==
    \A c \in Callers :
        (cpc[c] = "Awaiting" /\ cpc'[c] = "Abandoned")
            => (wstate' = wstate /\ wcmd' = wcmd /\ queue' = queue)

C8_ReplyDiscarded ==
    \A w \in Workers :
        (wstate[w] = "Executing" /\ wstate'[w] # "Executing"
         /\ oneshot[wcmd[w].response_tx].rx = "dropped"
         /\ <<w, wcmd[w].response_tx>> \notin crashLog')
            => LET c == wcmd[w].response_tx
               IN  /\ execCount'[c] = execCount[c] + 1
                   /\ wstate'[w] = "Idle"
                   /\ wcmd'[w] = NoCmd
                   /\ oneshot'[c].value = NoVal
                   /\ oneshot'[c].tx = "refused"
                   /\ queue' = queue /\ cpc' = cpc /\ ret' = ret

C8_RecvEnabled ==
    \A w \in Workers :
        (wstate[w] = "Idle" /\ queue # <<>>) => ENABLED WorkerRecv(w)

\* C8: abandoning the wait leaves every worker and the queue as they are; a
\* worker whose action returns after the caller abandoned counts the
\* execution as completed, has its reply refused and dropped, and is Idle
\* again; an Idle worker can take the next queued descriptor.
C8_AbandonedCaller ==
    /\ []C8_RecvEnabled
    /\ [][C8_AbandonLeavesWorker /\ C8_ReplyDiscarded]_vars

\* The single worker had its reply to an abandoned caller refused and has
\* dequeued a later descriptor since.
C8_Witness ==
    /\ num_threads = 1
    /\ Len(deqLog) >= 2
    /\ oneshot[deqLog[1]].tx = "refused"
    /\ cpc[deqLog[1]] = "Abandoned"

C9_CrashOutcome ==
    \A e \in crashLog :
        LET w == e[1]
            c == e[2]
        IN  /\ wstate[w] = "Terminated"
            /\ execCount[c] = 0 /\ sendCount[c] = 0
            /\ oneshot[c].value = NoVal
            /\ cpc[c] \in {"Awaiting", "Returned", "Abandoned"}
            /\ cpc[c] = "Awaiting" => AwaitOutcome(oneshot[c]) = CompletionFailure
            /\ cpc[c] = "Returned" => ret[c] = CompletionFailure

C9_OthersUntouched ==
    \A w \in Workers :
        (wstate[w] = "Executing" /\ <<w, wcmd[w].response_tx>> \in crashLog' \ crashLog)
            => /\ \A v \in Workers \ {w} : wstate'[v] = wstate[v] /\ wcmd'[v] = wcmd[v]
               /\ ReceiversAlive \ {w} # {} => queue' = queue
               /\ \A d \in Callers \ {wcmd[w].response_tx} :
                     ReceiversAlive \ {w} # {} => oneshot'[d] = oneshot[d]

\* C9: a worker that panics in the execution step is Terminated; the caller
\* of the descriptor it held gets no result and resolves to the completion
\* failure "Worker channel closed"; the other workers, the queue and the
\* other reply handles are as before the panic while a worker is left.
C9_WorkerCrash ==
    /\ []C9_CrashOutcome
    /\ [][C9_OthersUntouched]_vars

\* A caller got the completion failure of a crashed worker, and a descriptor
\* dequeued after it was served with a result.
C9_Witness ==
    \E e \in crashLog, d \in Callers :
        /\ cpc[e[2]] = "Returned" /\ ret[e[2]] = CompletionFailure
        /\ cpc[d] = "Returned" /\ ret[d].ok
        /\ Pos(deqLog, e[2]) < Pos(deqLog, d)

C10_Returned ==
    \A c \in Callers :
        ret[c].val = DispatchErr
            => /\ cpc[c] = "Returned" /\ ~ret[c].ok
               /\ ret[c] # CompletionFailure
               /\ c \notin Range(accepted) /\ c \notin Range(QueueIds)
               /\ readCount[c] = 0 /\ sendCount[c] = 0

C10_Step ==
    \A c \in Callers :
        (cpc[c] \in {"Start", "Blocked"} /\ ReceiversAlive = {} /\ cpc'[c] # cpc[c])
            => /\ cpc'[c] = "Returned"
               /\ ret'[c] = DispatchFailed
               /\ queue' = queue /\ accepted' = accepted

\* C10: a submission made or woken when no receiver is left returns the
\* dispatch failure as an error value, different from the completion failure,
\* without enqueuing its command and without awaiting its reply handle.
C10_AdmissionFailure ==
    /\ []C10_Returned
    /\ [][C10_Step]_vars

\* Workers existed and are gone: one caller got the completion failure, a
\* later one the dispatch failure.
C10_Witness ==
    \E c, d \in Callers :
        /\ num_threads >= 1
        /\ ret[c] = DispatchFailed /\ cpc[c] = "Returned"
        /\ ret[d] = CompletionFailure /\ cpc[d] = "Returned"

\* A caller inside the synchronous send() call of runtime.rs:124 has not
\* returned from poll(): the front-end scheduler thread polling it is held.
HoldsSchedulerThread(c) == cpc[c] = "Blocked"

\* C11: a submission waiting for queue acceptance or for its reply never
\* holds a front-end scheduler thread.
C11_CooperativeSuspension == \A c \in Callers : ~HoldsSchedulerThread(c)

\* Thread w unwound out of init_runtime_worker (runtime.rs:67): it terminated
\* without ever owning an engine.
InitFailed(w) == wstate[w] = "Terminated" /\ runtime[w] = 0

\* C12: once engine initialization has failed for a worker there is no
\* Manager that accepts a submission.
C12_StartupAborted ==
    [][(\E w \in Workers : InitFailed(w)) => accepted' = accepted]_vars

\* Descriptors that were in the hands of a worker when its execution step
\* panicked.
CrashedOn == {e[2] : e \in crashLog}

\* C13: a failure stays with its own request: with every engine initialized,
\* a request that was accepted and was not the one a worker crashed on
\* returns its result, never a failure.
C13_FailureLocal ==
    \A c \in Callers :
        (/\ \A w \in Workers : ~InitFailed(w)
         /\ cpc[c] = "Returned" /\ c \in Range(accepted) /\ c \notin CrashedOn)
            => ret[c].ok

\* ------------------------------------------------------------------ fairness
Threads == 1..MaxThreads

\* A worker is an OS thread: it keeps running, so init_runtime_worker ends
\* (returning or panicking), a recv() that can return does, and an action
\* that has started ends (returning or panicking).
WorkerFair(w) ==
    /\ WF_vars(w \in Workers /\ (WorkerInit(w) \/ WorkerInitPanic(w)))
    /\ WF_vars(w \in Workers /\ WorkerRecv(w))
    /\ WF_vars(w \in Workers /\ WorkerRecvClosed(w))
    /\ WF_vars(w \in Workers /\ (WorkerReply(w) \/ WorkerPanic(w)))

\* A blocked send() that can return does; a task woken by its oneshot
\* receiver is polled again unless it is dropped.
CallerFair(c) ==
    /\ WF_vars(SendUnblock(c))
    /\ WF_vars(AwaitReply(c))

FairSpec ==
    /\ Spec
    /\ \A w \in Threads : WorkerFair(w)
    /\ \A c \in Callers : CallerFair(c)

AnyWorkerFailed == crashLog # {} \/ \E w \in Workers : InitFailed(w)

Served(c) ==
    /\ cpc[c] = "Returned"
    /\ ret[c] = [ok |-> TRUE, val |-> ExecuteAction(creq[c].action, creq[c].body)]
    /\ sendCount[c] = 1

\* C14: an accepted request whose caller keeps waiting is eventually answered
\* with its result, unless some worker fails.
C14_CompletionLiveness ==
    \A c \in Callers :
        (c \in Range(accepted))
            ~> (Served(c) \/ cpc[c] = "Abandoned" \/ AnyWorkerFailed)

\* A request that first found the queue full was answered while no worker
\* had failed.
C14_Witness ==
    \E c \in everBlocked : Served(c) /\ ~AnyWorkerFailed

\* Thread w left its loop because recv() returned Err (runtime.rs:70): it
\* terminated owning an engine and without a panic.
LoopTerminated(w) ==
    /\ wstate[w] = "Terminated"
    /\ runtime[w] # 0
    /\ \A e \in crashLog : e[1] # w

C15_AfterLoopExit ==
    /\ \A w \in Workers :
          LoopTerminated(w)
              => /\ ~sender
                 /\ queue = <<>>
                 /\ Len(deqLog) = Len(accepted)
                 /\ wcmd[w] = NoCmd
    /\ (num_threads >= 1 /\ \A w \in Workers : LoopTerminated(w))
          => \A c \in Range(accepted) : execCount[c] = 1

C15_LoopExitStep ==
    \A w \in Workers :
        (wstate[w] = "Idle" /\ wstate'[w] = "Terminated")
            => (~sender /\ queue = <<>>)

\* C15: an Idle worker terminates only on an empty queue whose send side is
\* dropped; once a worker has left its loop every accepted descriptor has
\* been dequeued, and when all workers have left it every accepted
\* descriptor has been executed.
C15_TerminatedOnlyWhenClosed ==
    /\ []C15_AfterLoopExit
    /\ [][C15_LoopExitStep]_vars

\* The Manager was dropped while a descriptor of an abandoned call was still
\* to be replied to; it was executed and every worker then left its loop.
C15_Witness ==
    /\ num_threads = 2
    /\ \A w \in Workers : LoopTerminated(w)
    /\ \E c \in Callers : cpc[c] = "Abandoned" /\ execCount[c] = 1
                          /\ oneshot[c].tx = "refused"

\* Thread 1 stands for the worker that a slow action may occupy for ever:
\* it gets no fairness, every other worker thread and every caller does.
SlowWorker == 1

SlowSpec ==
    /\ Spec
    /\ \A w \in Threads \ {SlowWorker} : WorkerFair(w)
    /\ \A c \in Callers : CallerFair(c)

Failed(w) == InitFailed(w) \/ \E e \in crashLog : e[1] = w

C16_Excused(c) ==
    \/ cpc[c] = "Abandoned"
    \/ c \in CrashedOn
    \/ num_threads >= 2 /\ wcmd[SlowWorker].response_tx = c
    \/ \A w \in Workers \ {SlowWorker} : Failed(w)

\* C16: with two or more workers, however long one worker is occupied, every
\* accepted request is eventually answered with its result by the others,
\* unless it is the one the occupied worker holds, its caller abandoned it,
\* its own action panicked, or no other worker is left.
C16_NoStarvation ==
    \A c \in Callers :
        (num_threads >= 2 /\ c \in Range(accepted))
            ~> (Served(c) \/ C16_Excused(c))

\* Worker 1 is still executing the first descriptor it took while the other
\* worker has served the two descriptors accepted after it.
C16_Witness ==
    /\ num_threads = 2
    /\ wstate[SlowWorker] = "Executing"
    /\ Len(deqLog) = 3
    /\ wcmd[SlowWorker].response_tx = deqLog[1]
    /\ Served(deqLog[2]) /\ Served(deqLog[3])

\* C17: a pool built with num_threads = 0 never accepts or suspends a
\* submission: every execute() that has started has returned the dispatch
\* failure, and the zero-capacity queue stays empty.
C17_ZeroThreads ==
    num_threads = 0
        => /\ queue = <<>> /\ accepted = <<>> /\ everBlocked = {}
           /\ \A c \in Callers :
                 \/ cpc[c] = "Start"
                 \/ cpc[c] = "Returned" /\ ret[c] = DispatchFailed

\* Every call on a pool without threads has returned the dispatch failure.
C17_Witness ==
    /\ num_threads = 0
    /\ \A c \in Callers : cpc[c] = "Returned" /\ ret[c] = DispatchFailed

\* C18: a submission blocked on the full queue when the last receiver goes
\* eventually returns the dispatch failure.
C18_BlockedSenderWoken ==
    \A c \in Callers :
        (cpc[c] = "Blocked" /\ ReceiversAlive = {})
            ~> (cpc[c] = "Returned" /\ ret[c] = DispatchFailed)

\* A call that had blocked on the full queue returned the dispatch failure.
C18_Witness ==
    \E c \in everBlocked :
        cpc[c] = "Returned" /\ ret[c] = DispatchFailed /\ ReceiversAlive = {}

\* The caller of c's request is gone but its command has not been dequeued.
GoneWhileQueued(c) ==
    /\ cpc[c] = "Abandoned"
    /\ c \in Range(accepted)
    /\ c \notin Range(deqLog)

\* While a receiver is alive, such a command still occupies its queue slot.
C19_StillQueued ==
    \A c \in Callers :
        (GoneWhileQueued(c) /\ ReceiversAlive # {})
            => /\ c \in Range(QueueIds)
               /\ \E i \in 1..Len(queue) : queue[i] = OwnCmd(c)

\* staleDeq names exactly the workers executing a command taken from the
\* queue after its caller had gone.
C19_StaleHeld ==
    \A w \in staleDeq :
        /\ wstate[w] = "Executing"
        /\ cpc[wcmd[w].response_tx] = "Abandoned"
        /\ oneshot[wcmd[w].response_tx].rx = "dropped"
        /\ wcmd[w] = OwnCmd(wcmd[w].response_tx)

\* Abandoning the wait removes nothing from the queue.
C19_AbandonKeepsQueue ==
    \A c \in Callers :
        (cpc[c] = "Awaiting" /\ cpc'[c] = "Abandoned") => queue' = queue

\* A worker takes the oldest command whether or not its caller has gone.
C19_DequeuedInTurn ==
    \A w \in Workers :
        (wstate[w] = "Idle" /\ wstate'[w] = "Executing")
            => /\ wcmd'[w] = Head(queue)
               /\ queue' = Tail(queue)
               /\ w \in staleDeq' <=> cpc[Head(queue).response_tx] = "Abandoned"

\* The worker that took it runs the action to its end and drops the result.
C19_ExecutedAndDiscarded ==
    \A w \in staleDeq :
        LET c == wcmd[w].response_tx
        IN  (wstate'[w] # "Executing" /\ <<w, c>> \notin crashLog')
                => /\ execCount'[c] = execCount[c] + 1
                   /\ oneshot'[c].value = NoVal
                   /\ oneshot'[c].tx = "refused"
                   /\ wstate'[w] = "Idle"
                   /\ ret'[c] = ret[c]

\* C19: a request whose caller abandons its wait while the command is still
\* queued is neither skipped nor removed: it keeps its queue slot, a worker
\* dequeues it in its turn, executes the action in full and discards the
\* result.
C19_AbandonedInQueue ==
    /\ [](C19_StillQueued /\ C19_StaleHeld)
    /\ [][/\ C19_AbandonKeepsQueue
          /\ C19_DequeuedInTurn
          /\ C19_ExecutedAndDiscarded]_vars

\* A worker is executing a command it dequeued after the caller had gone,
\* while a later caller still waits for its own command in the queue.
C19_Witness ==
    \E w \in staleDeq :
        /\ wstate[w] = "Executing"
        /\ \E d \in Callers : cpc[d] = "Awaiting" /\ d \in Range(QueueIds)

\* new() has returned and no spawned thread has left init_runtime_worker yet.
AllInitializing ==
    /\ num_threads >= 1
    /\ \A w \in Workers : wstate[w] = "Initializing"

\* Until the first worker is ready every accepted command sits in the
\* queue, in acceptance order and as built; no call has returned, and a call
\* is held back only by a full queue.
C20_QueuedDuringInit ==
    AllInitializing
        => /\ QueueIds = accepted
           /\ \A i \in 1..Len(queue) : queue[i] = OwnCmd(queue[i].response_tx)
           /\ deqLog = <<>>
           /\ Len(queue) <= Capacity
           /\ \A c \in Callers :
                /\ cpc[c] # "Returned"
                /\ cpc[c] = "Blocked" => Full

\* A submission made during initialization is accepted when there is room.
C20_AcceptedDuringInit ==
    \A c \in Callers :
        (AllInitializing /\ sender /\ cpc[c] = "Start" /\ cpc'[c] # "Start")
            => IF Len(queue) < Capacity
               THEN /\ cpc'[c] = "Awaiting"
                    /\ queue' = Append(queue, BuildCmd(c, creq'[c].action, creq'[c].body))
                    /\ accepted' = Append(accepted, c)
               ELSE /\ cpc'[c] = "Blocked"
                    /\ queue' = queue

\* No worker will ever be Idle: every initialization failed.
NoWorkerReady == \A w \in Workers : InitFailed(w)

\* Such a command is executed once a worker is ready, unless a worker crashes.
C20_ExecutedAfterInit ==
    \A c \in Callers :
        (AllInitializing /\ c \in Range(QueueIds))
            ~> (execCount[c] = 1 \/ NoWorkerReady \/ crashLog # {})

\* C20: new() returns while the workers are still initializing; a request
\* submitted while every worker is Initializing is accepted into the queue up
\* to its capacity, is not lost, and is executed once some worker finishes
\* its initialization and becomes Idle.
C20_SubmitDuringInit ==
    /\ []C20_QueuedDuringInit
    /\ [][C20_AcceptedDuringInit]_vars
    /\ C20_ExecutedAfterInit

\* Every worker is still initializing, the queue has been filled to its
\* capacity and one more submission is held back.
C20_Witness ==
    /\ AllInitializing
    /\ Len(queue) = Capacity
    /\ \E c \in Callers : cpc[c] = "Blocked"
====
